---- MODULE Spec2Model ----
(***************************************************************************)
(* A state-machine model of source/graphics.cpp (lunasvg): the            *)
(* copy-on-write Path and its iterator, Transform, the Canvas that drives  *)
(* the plutovg backend, and the Canvas::create factories.                  *)
(*                                                                         *)
(* The specifications share the module's variables:                        *)
(*   SpecPath       Path values over a heap of reference-counted buffers   *)
(*   SpecCanvas     one Canvas and the backend's state stack               *)
(*   SpecCreate     Canvas::create applied to float and Rect inputs        *)
(*   SpecMask       the loop of Canvas::convertToLuminanceMask             *)
(*   SpecTransform  the methods of Transform, with exact entries           *)
(*   SpecIter       a PathIterator walking the element slots of a path     *)
(*   SpecConc       two threads running Path operations step by step       *)
(***************************************************************************)
EXTENDS Integers, Sequences, FiniteSets, TLC

VARIABLES
    m_data,     \* Path::m_data of each Path slot: a buffer handle, 0 = no live Path
    heap,       \* plutovg_path_t objects: reference count and elements, by handle
    tls_path,   \* the thread_local `path` of defaultPathData(); 0 = nullptr
    pathOp,     \* the Path operation that ran last: "own" for a constructor, an
                \* assignment or the destructor, else the mutating method, the
                \* Path it ran on and what it returned
    states,     \* the backend canvas's stack of drawing states, the active one last
    drawn,      \* the last call that handed geometry to the backend, with the
                \* drawing state it found
    lastOp,     \* the Canvas method that ran last
    saved,      \* clip and paint as they were at each save() not yet restored
    nops,       \* Canvas methods called so far
    lastCall,   \* the rects of the last Canvas call if it was drawImage, and the
                \* source extents it divided by
    created,    \* the last call of Canvas::create: its arguments and its Canvas
    mask,       \* convertToLuminanceMask: the surface's memory and the loop's position
    xform,      \* a Transform (m_matrix) and the Transform method that ran last
    iter,       \* a PathIterator: the element slots it walks and its m_index
    conc        \* two threads running Path operations step by step on one heap

pathVars == <<m_data, heap, tls_path, pathOp>>

canvasVars == <<states, drawn, lastOp, saved, nops, lastCall>>

restVars == <<mask, xform, iter, conc>>

vars ==
    <<m_data, heap, tls_path, pathOp, states, drawn, lastOp, saved, nops, lastCall, created,
      mask, xform, iter, conc>>

(***************************************************************************)
(* Bounds of the model.                                                    *)
(***************************************************************************)
MaxPaths == 2      \* Path values alive at once
MaxBufs == 2       \* path buffers allocated at once
MaxElems == 1      \* path segments held by all buffers together
MaxRef == 3        \* cap of a buffer's reference count

Paths == 1 .. MaxPaths
Bufs == 1 .. MaxBufs
NoBuf == 0

(***************************************************************************)
(* Path buffers (plutovg_path_t).  A buffer's content is the sequence of   *)
(* segments appended to it; a segment is the command and its end point.    *)
(***************************************************************************)
FreeBuf == [ref |-> 0, elems |-> <<>>]

FreeBufs(h) == {b \in Bufs : h[b].ref = 0}

NewBuf(h) == CHOOSE b \in FreeBufs(h) : \A c \in FreeBufs(h) : b <= c

plutovg_path_create(h) == [h EXCEPT ![NewBuf(h)] = [ref |-> 1, elems |-> <<>>]]

plutovg_path_reference(h, b) == [h EXCEPT ![b].ref = @ + 1]

plutovg_path_destroy(h, b) ==
    IF h[b].ref = 1 THEN [h EXCEPT ![b] = FreeBuf]
    ELSE [h EXCEPT ![b].ref = @ - 1]

plutovg_path_clone(h, b) ==
    [h EXCEPT ![NewBuf(h)] = [ref |-> 1, elems |-> h[b].elems]]

plutovg_path_get_reference_count(h, b) == h[b].ref

plutovg_path_reset(h, b) == [h EXCEPT ![b].elems = <<>>]

plutovg_path_append(h, b, segs) == [h EXCEPT ![b].elems = @ \o segs]


(***************************************************************************)
(* What each backend call appends.  A segment is recorded as the command   *)
(* and the point it ends at; the shape builders append one closed          *)
(* sub-path, recorded with the far corner of the shape.                    *)
(***************************************************************************)
Seg(cmd, x, y) == [cmd |-> cmd, x |-> x, y |-> y]

plutovg_path_move_to(h, b, x, y) == plutovg_path_append(h, b, <<Seg("move", x, y)>>)

plutovg_path_line_to(h, b, x, y) == plutovg_path_append(h, b, <<Seg("line", x, y)>>)

plutovg_path_quad_to(h, b, x, y) == plutovg_path_append(h, b, <<Seg("cubic", x, y)>>)

plutovg_path_cubic_to(h, b, x, y) == plutovg_path_append(h, b, <<Seg("cubic", x, y)>>)

\* a zero radius degenerates to a line, anything else is flattened to cubics
plutovg_path_arc_to(h, b, rx, ry, x, y) ==
    IF rx = 0 \/ ry = 0 THEN plutovg_path_line_to(h, b, x, y)
    ELSE plutovg_path_append(h, b, <<Seg("cubic", x, y)>>)

plutovg_path_close(h, b) == plutovg_path_append(h, b, <<Seg("close", 0, 0)>>)

plutovg_path_add_ellipse(h, b, rx, ry) ==
    plutovg_path_append(h, b, <<Seg("ellipse", 2 * rx, 2 * ry)>>)

plutovg_path_add_rect(h, b, w, ht) ==
    plutovg_path_append(h, b, <<Seg("rect", w, ht)>>)

\* without corner radii the rounded rectangle is the plain one
plutovg_path_add_round_rect(h, b, w, ht, rx, ry) ==
    IF rx = 0 /\ ry = 0 THEN plutovg_path_add_rect(h, b, w, ht)
    ELSE plutovg_path_append(h, b, <<Seg("round_rect", w, ht)>>)

(***************************************************************************)
(* Path text.  A text is a sequence of tokens, each a well-formed command  *)
(* or the malformed token "bad".  The backend parser appends command by    *)
(* command and stops with false at the first token it cannot read.         *)
(***************************************************************************)
Texts ==
    { <<"M", "L">>, <<"M", "bad">>, <<"bad">>, <<>> }

TokenSeg(tok) == IF tok = "M" THEN Seg("move", 0, 0) ELSE Seg("line", 1, 1)

RECURSIVE ParsedPrefix(_)
ParsedPrefix(text) ==
    IF text = <<>> \/ Head(text) = "bad" THEN <<>>
    ELSE <<TokenSeg(Head(text))>> \o ParsedPrefix(Tail(text))

WellFormed(text) == \A i \in 1 .. Len(text) : text[i] # "bad"

plutovg_path_parse(h, b, text) == plutovg_path_append(h, b, ParsedPrefix(text))

plutovg_path_parse_result(text) == WellFormed(text)

(***************************************************************************)
(* plutovg_path_extents: the box around everything the buffer holds, as a  *)
(* Rect <<x, y, w, h>>; Rect::Empty for a buffer without segments.         *)
(***************************************************************************)
Max(S) == CHOOSE x \in S : \A y \in S : y <= x

Min(S) == CHOOSE x \in S : \A y \in S : x <= y

RectEmpty == <<0, 0, 0, 0>>

plutovg_path_extents(elems) ==
    IF elems = <<>> THEN RectEmpty
    ELSE LET xs == {elems[i].x : i \in 1 .. Len(elems)} \cup
                   {0 : i \in {j \in 1 .. Len(elems) : elems[j].cmd \in {"ellipse", "round_rect", "rect"}}}
             ys == {elems[i].y : i \in 1 .. Len(elems)} \cup
                   {0 : i \in {j \in 1 .. Len(elems) : elems[j].cmd \in {"ellipse", "round_rect", "rect"}}}
         IN  <<Min(xs), Min(ys), Max(xs) - Min(xs), Max(ys) - Min(ys)>>

(***************************************************************************)
(* Path                                                                    *)
(***************************************************************************)
Live(m, p) == m[p] # NoBuf

\* isUnique() as it would be if the count of the cache were discounted everywhere
isUnique_upto2(h, b) == plutovg_path_get_reference_count(h, b) <= 2

\* Path::isUnique, lines 320-323
isUnique(h, b) == plutovg_path_get_reference_count(h, b) = 1

\* Path::isEmpty, lines 315-318
isEmpty(h, b) == Len(h[b].elems) = 0

\* Path::boundingRect, lines 308-313
boundingRect(h, b) == plutovg_path_extents(h[b].elems)

\* ensure() without the clone: the shared buffer itself is handed out
ensure_noclone(m, h, p) == [m |-> m, h |-> h]

\* Path::ensure, lines 331-336: the state after the call, as [m, h]
ensure(m, h, p) ==
    IF ~isUnique(h, m[p])
    THEN [m |-> [m EXCEPT ![p] = NewBuf(h)], h |-> plutovg_path_clone(h, m[p])]
    ELSE [m |-> m, h |-> h]

\* ensure() can allocate its clone
CanEnsure(m, h, p) == isUnique(h, m[p]) \/ FreeBufs(h) # {}

RECURSIVE SumLen(_, _)
SumLen(h, n) == IF n = 0 THEN 0 ELSE Len(h[n].elems) + SumLen(h, n - 1)

TotalElems(h) == SumLen(h, MaxBufs)

\* some other live Path points to p's buffer
Shared(m, p) == \E q \in Paths : q # p /\ m[q] = m[p]

OpRecord(op, p, ret, shared, cloned) ==
    [op |-> op, p |-> p, ret |-> ret, shared |-> shared, cloned |-> cloned]

\* the frame of every mutating method: the buffer ensure() returns is handed
\* to one backend call, `after` is the heap that call leaves
Mutation(op, p, e, after, ret) ==
    /\ TotalElems(after) <= MaxElems
    /\ m_data' = e.m
    /\ heap' = after
    /\ pathOp' = OpRecord(op, p, ret, Shared(m_data, p), e.m[p] # m_data[p])
    /\ UNCHANGED <<tls_path, canvasVars, created, restVars>>


\* defaultPathData that hands out the cached buffer without a reference of
\* its own
defaultPathData_noref(h, t) ==
    LET h1 == IF t = NoBuf THEN plutovg_path_create(h) ELSE h
        t1 == IF t = NoBuf THEN NewBuf(h) ELSE t
    IN  [t |-> t1, h |-> h1, b |-> t1]

\* defaultPathData, lines 203-209: the thread's cache and the heap after the
\* call, and the buffer returned
defaultPathData(h, t) ==
    LET h1 == IF t = NoBuf THEN plutovg_path_create(h) ELSE h
        t1 == IF t = NoBuf THEN NewBuf(h) ELSE t
    IN  [t |-> t1, h |-> plutovg_path_reference(h1, t1), b |-> t1]

\* Path::Path(), lines 211-214
PathCtor(p) ==
    /\ ~Live(m_data, p)
    /\ IF tls_path = NoBuf THEN FreeBufs(heap) # {} ELSE heap[tls_path].ref < MaxRef
    /\ LET d == defaultPathData(heap, tls_path) IN
        /\ m_data' = [m_data EXCEPT ![p] = d.b]
        /\ heap' = d.h
        /\ tls_path' = d.t
    /\ pathOp' = OpRecord("own", 0, TRUE, FALSE, FALSE)
    /\ UNCHANGED <<canvasVars, created, restVars>>

\* Path::Path(const Path&), lines 216-219: p is constructed as a copy of q
PathCopyCtor(p, q) ==
    /\ ~Live(m_data, p)
    /\ Live(m_data, q)
    /\ heap[m_data[q]].ref < MaxRef
    /\ m_data' = [m_data EXCEPT ![p] = m_data[q]]
    /\ heap' = plutovg_path_reference(heap, m_data[q])
    /\ pathOp' = OpRecord("own", 0, TRUE, FALSE, FALSE)
    /\ UNCHANGED <<tls_path, canvasVars, created, restVars>>

\* Path::~Path, lines 226-229
PathDtor(p) ==
    /\ Live(m_data, p)
    /\ m_data' = [m_data EXCEPT ![p] = NoBuf]
    /\ heap' = plutovg_path_destroy(heap, m_data[p])
    /\ pathOp' = OpRecord("own", 0, TRUE, FALSE, FALSE)
    /\ UNCHANGED <<tls_path, canvasVars, created, restVars>>

\* Path::operator=(const Path&), lines 231-235: p = q.  The temporary copy of
\* q takes a reference, swaps buffers with p and releases p's old buffer.
PathCopyAssign(p, q) ==
    /\ Live(m_data, p)
    /\ Live(m_data, q)
    /\ heap[m_data[q]].ref < MaxRef
    /\ LET h1 == plutovg_path_reference(heap, m_data[q]) IN
        /\ m_data' = [m_data EXCEPT ![p] = m_data[q]]
        /\ heap' = plutovg_path_destroy(h1, m_data[p])
    /\ pathOp' = OpRecord("own", 0, TRUE, FALSE, FALSE)
    /\ UNCHANGED <<tls_path, canvasVars, created, restVars>>

\* Path::moveTo, lines 243-246
moveTo(p) ==
    /\ Live(m_data, p) /\ CanEnsure(m_data, heap, p)
    /\ LET e == ensure(m_data, heap, p) IN
        Mutation("append", p, e, plutovg_path_move_to(e.h, e.m[p], 0, 0), TRUE)

\* Path::lineTo, lines 248-251
lineTo(p) ==
    /\ Live(m_data, p) /\ CanEnsure(m_data, heap, p)
    /\ LET e == ensure(m_data, heap, p) IN
        Mutation("append", p, e, plutovg_path_line_to(e.h, e.m[p], 1, 1), TRUE)

\* Path::quadTo, lines 253-256
quadTo(p) ==
    /\ Live(m_data, p) /\ CanEnsure(m_data, heap, p)
    /\ LET e == ensure(m_data, heap, p) IN
        Mutation("append", p, e, plutovg_path_quad_to(e.h, e.m[p], 2, 2), TRUE)

\* Path::cubicTo, lines 258-261
cubicTo(p) ==
    /\ Live(m_data, p) /\ CanEnsure(m_data, heap, p)
    /\ LET e == ensure(m_data, heap, p) IN
        Mutation("append", p, e, plutovg_path_cubic_to(e.h, e.m[p], 2, 2), TRUE)

\* Path::arcTo, lines 263-266, with radii (r, r)
arcTo(p, r) ==
    /\ Live(m_data, p) /\ CanEnsure(m_data, heap, p)
    /\ LET e == ensure(m_data, heap, p) IN
        Mutation("append", p, e, plutovg_path_arc_to(e.h, e.m[p], r, r, 1, 1), TRUE)

\* Path::close, lines 268-271
close(p) ==
    /\ Live(m_data, p) /\ CanEnsure(m_data, heap, p)
    /\ LET e == ensure(m_data, heap, p) IN
        Mutation("append", p, e, plutovg_path_close(e.h, e.m[p]), TRUE)

\* Path::addEllipse, lines 273-276
addEllipse(p) ==
    /\ Live(m_data, p) /\ CanEnsure(m_data, heap, p)
    /\ LET e == ensure(m_data, heap, p) IN
        Mutation("append", p, e, plutovg_path_add_ellipse(e.h, e.m[p], 1, 1), TRUE)

\* Path::addRoundRect, lines 278-281
addRoundRect(p) ==
    /\ Live(m_data, p) /\ CanEnsure(m_data, heap, p)
    /\ LET e == ensure(m_data, heap, p) IN
        Mutation("append", p, e, plutovg_path_add_round_rect(e.h, e.m[p], 2, 3, 0, 0), TRUE)

\* Path::addRect, lines 283-286
addRect(p) ==
    /\ Live(m_data, p) /\ CanEnsure(m_data, heap, p)
    /\ LET e == ensure(m_data, heap, p) IN
        Mutation("append", p, e, plutovg_path_add_rect(e.h, e.m[p], 2, 3), TRUE)

\* Path::reset, lines 303-306
reset(p) ==
    /\ Live(m_data, p) /\ CanEnsure(m_data, heap, p)
    /\ LET e == ensure(m_data, heap, p) IN
        Mutation("reset", p, e, plutovg_path_reset(e.h, e.m[p]), TRUE)

\* Path::parse, lines 325-329
parse(p, text) ==
    /\ Live(m_data, p) /\ CanEnsure(m_data, heap, p)
    /\ LET e1 == ensure(m_data, heap, p)
           h1 == plutovg_path_reset(e1.h, e1.m[p])
           e2 == ensure(e1.m, h1, p)
       IN  Mutation("parse", p, e2, plutovg_path_parse(e2.h, e2.m[p], text),
                    plutovg_path_parse_result(text))

\* pathOp.op of the mutating methods: the nine appending ones, reset and parse
Mutators == {"append", "reset", "parse"}

InitPath ==
    /\ m_data = [p \in Paths |-> NoBuf]
    /\ heap = [b \in Bufs |-> FreeBuf]
    /\ tls_path = NoBuf
    /\ pathOp = OpRecord("none", 0, TRUE, FALSE, FALSE)

\* the state of the variables a specification does not use
IdleCanvas ==
    /\ states = <<>>
    /\ drawn = <<>>
    /\ lastOp = "idle"
    /\ saved = <<>>
    /\ nops = 0
    /\ lastCall = <<>>

IdleCreate == created = [form |-> "none"]

IdleRest ==
    /\ mask = <<>>
    /\ xform = <<>>
    /\ iter = <<>>
    /\ conc = <<>>

NextPath ==
    \/ \E p \in Paths : PathCtor(p)
    \/ \E p, q \in Paths : PathCopyCtor(p, q)
    \/ \E p, q \in Paths : PathCopyAssign(p, q)
    \/ \E p \in Paths : PathDtor(p)
    \/ \E p \in Paths : moveTo(p)
    \/ \E p \in Paths : lineTo(p)
    \/ \E p \in Paths : quadTo(p)
    \/ \E p \in Paths : cubicTo(p)
    \/ \E p \in Paths, r \in {0, 1} : arcTo(p, r)
    \/ \E p \in Paths : close(p)
    \/ \E p \in Paths : addEllipse(p)
    \/ \E p \in Paths : addRoundRect(p)
    \/ \E p \in Paths : addRect(p)
    \/ \E p \in Paths : reset(p)
    \/ \E p \in Paths, text \in Texts : parse(p, text)

InitP == InitPath /\ IdleCanvas /\ IdleCreate /\ IdleRest

SpecPath == InitP /\ [][NextPath]_vars


(***************************************************************************)
(* Claims about Path, checked under SpecPath.                              *)
(***************************************************************************)
Elems(m, h, p) == h[m[p]].elems

Owners(m, t, b) == Cardinality({p \in Paths : m[p] = b}) + (IF t = b THEN 1 ELSE 0)

\* C1: copy-on-write isolation.  A step in which a mutating method (an append,
\* reset or parse) runs on one Path leaves every other live Path pointing to
\* the buffer it pointed to, with the same segments and the same
\* boundingRect(), whether or not the two shared a buffer before the step.
C1_CopyOnWriteIsolation ==
    [][\A p \in Paths :
          (pathOp'.op \in Mutators /\ pathOp'.p # p /\ Live(m_data, p)) =>
              /\ m_data'[p] = m_data[p]
              /\ Elems(m_data', heap', p) = Elems(m_data, heap, p)
              /\ boundingRect(heap', m_data'[p]) = boundingRect(heap, m_data[p])]_vars

\* a mutating method has just run on a Path that shared its buffer with
\* another live Path, and the two now differ
C1_Witness ==
    /\ pathOp.op \in Mutators
    /\ pathOp.shared
    /\ \E q \in Paths :
          /\ q # pathOp.p
          /\ Live(m_data, q)
          /\ Elems(m_data, heap, q) # Elems(m_data, heap, pathOp.p)

\* C3: the reference count of every buffer is the number of its owners: the
\* Paths that point to it, plus the thread's cache for the canonical buffer
\* (so a buffer without owners has count zero: it has been destroyed).
C3_RefCountIsOwners ==
    \A b \in Bufs : heap[b].ref = Owners(m_data, tls_path, b)

C8_FailedParseLeavesEmpty ==
    (pathOp.op = "parse" /\ ~pathOp.ret) => isEmpty(heap, m_data[pathOp.p])


\* C19: once the thread's cache holds the canonical buffer, that buffer has
\* no segments and a reference count of at least 1 (it is never destroyed),
\* so every Path that points to it, a newly default-constructed one included,
\* is empty.
C19_CanonicalStaysEmpty ==
    tls_path # NoBuf =>
        /\ Len(heap[tls_path].elems) = 0
        /\ heap[tls_path].ref >= 1
        /\ \A p \in Paths : m_data[p] = tls_path => isEmpty(heap, m_data[p])

\* a default-constructed Path has been appended to, which gave it a buffer of
\* its own that now holds a segment, while another Path still points to the
\* canonical buffer
C19_Witness ==
    /\ tls_path # NoBuf
    /\ pathOp.op = "append"
    /\ pathOp.cloned
    /\ m_data[pathOp.p] # tls_path
    /\ Len(heap[m_data[pathOp.p]].elems) = 1
    /\ \E q \in Paths : q # pathOp.p /\ m_data[q] = tls_path

(***************************************************************************)
(* Matrices <<a, b, c, d, e, f>>, mapping (x, y) to                        *)
(* (a x + c y + e, b x + d y + f), and rects <<x, y, w, h>>.               *)
(***************************************************************************)
Identity == <<1, 0, 0, 1, 0, 0>>

\* the product that maps a point by `left` first and by `right` second
plutovg_matrix_multiply(left, right) ==
    << left[1] * right[1] + left[2] * right[3],
       left[1] * right[2] + left[2] * right[4],
       left[3] * right[1] + left[4] * right[3],
       left[3] * right[2] + left[4] * right[4],
       left[5] * right[1] + left[6] * right[3] + right[5],
       left[5] * right[2] + left[6] * right[4] + right[6] >>

plutovg_matrix_map(m, x, y) ==
    <<x * m[1] + y * m[3] + m[5], x * m[2] + y * m[4] + m[6]>>

\* Transform::translated, lines 196-201
translated(tx, ty) == <<1, 0, 0, 1, tx, ty>>

\* Transform::scaled, lines 182-187
scaled(sx, sy) == <<sx, 0, 0, sy, 0, 0>>

\* Rect::isEmpty
isEmptyRect(r) == r[3] <= 0 \/ r[4] <= 0

(***************************************************************************)
(* The canvas of SpecCanvas: Canvas(m_x, m_y, SurfaceSize, SurfaceSize).   *)
(***************************************************************************)
m_x == 1

m_y == 2

SurfaceSize == 4       \* width and height of the canvas's surface, in pixels

MaxOps == 4            \* Canvas methods called in one run

Surface == (0 .. SurfaceSize - 1) \X (0 .. SurfaceSize - 1)

Lower(a, b) == IF a <= b THEN a ELSE b

Higher(a, b) == IF a <= b THEN b ELSE a

\* the pixels of the surface inside rect r mapped by matrix m (the box of the
\* mapped corners: the matrices used here neither rotate nor shear)
Region(m, r) ==
    LET p == plutovg_matrix_map(m, r[1], r[2])
        q == plutovg_matrix_map(m, r[1] + r[3], r[2] + r[4])
    IN  (Higher(Lower(p[1], q[1]), 0) .. Lower(Higher(p[1], q[1]), SurfaceSize) - 1)
            \X (Higher(Lower(p[2], q[2]), 0) .. Lower(Higher(p[2], q[2]), SurfaceSize) - 1)

(***************************************************************************)
(* Inputs of the Canvas methods.                                           *)
(***************************************************************************)
Transforms == {Identity, scaled(2, 2)}

PaintTransform == scaled(2, 2)   \* the transform of a gradient or texture

FillRules == {"NonZero", "EvenOdd"}

BlendModes == {"Src_Over", "Dst_In"}

DefaultStroke ==
    [width |-> 1, miter |-> 4, cap |-> "Butt", join |-> "Miter", offset |-> 0, dash |-> <<>>]

DashedStroke ==
    [width |-> 2, miter |-> 4, cap |-> "Round", join |-> "Bevel", offset |-> 1, dash |-> <<1, 2>>]

StrokeDatas == {DefaultStroke, DashedStroke}

PathBox == <<2, 2, 2, 2>>      \* the box of the (rectangular) path drawn

ClipRectArg == <<1, 2, 2, 2>>  \* the rect of clipRect

DstRects == {<<2, 3, 2, 2>>, <<0, 0, 0, 0>>, <<1, 1, -2, 2>>}

SrcRect == <<0, 0, 1, 1>>

SrcRects == {SrcRect, <<0, 0, 0, 1>>}

SourceOrigin == <<2, 1>>       \* x() and y() of the canvas blended in

(***************************************************************************)
(* The backend canvas (plutovg_canvas_t): a stack of drawing states.       *)
(***************************************************************************)
InitState ==
    [matrix |-> Identity, clip |-> Surface, paint |-> [kind |-> "color", src |-> "black", m |-> Identity],
     winding |-> "NonZero", op |-> "Src_Over",
     stroke |-> [width |-> 1, miter |-> 10, cap |-> "Butt", join |-> "Miter", offset |-> 0, dash |-> <<>>]]

Top(st) == st[Len(st)]

SetTop(st, g) == [st EXCEPT ![Len(st)] = g]

plutovg_canvas_save(st) == Append(st, Top(st))

plutovg_canvas_restore(st) == IF Len(st) = 1 THEN st ELSE SubSeq(st, 1, Len(st) - 1)

plutovg_canvas_reset_matrix(g) == [g EXCEPT !.matrix = Identity]

plutovg_canvas_translate(g, tx, ty) ==
    [g EXCEPT !.matrix = plutovg_matrix_multiply(translated(tx, ty), @)]

plutovg_canvas_transform(g, m) == [g EXCEPT !.matrix = plutovg_matrix_multiply(m, @)]

plutovg_canvas_set_fill_rule(g, rule) == [g EXCEPT !.winding = rule]

plutovg_canvas_set_operator(g, op) == [g EXCEPT !.op = op]

plutovg_canvas_set_rgba(g, c) ==
    [g EXCEPT !.paint = [kind |-> "color", src |-> c, m |-> Identity]]

plutovg_canvas_set_paint(g, paint) == [g EXCEPT !.paint = paint]

plutovg_paint_create_linear_gradient(m) == [kind |-> "linear", src |-> "stops", m |-> m]

plutovg_paint_create_radial_gradient(m) == [kind |-> "radial", src |-> "stops", m |-> m]

plutovg_paint_create_texture(surface, m) == [kind |-> "texture", src |-> surface, m |-> m]

plutovg_canvas_set_line_width(g, width) == [g EXCEPT !.stroke.width = width]

plutovg_canvas_set_miter_limit(g, limit) == [g EXCEPT !.stroke.miter = limit]

plutovg_canvas_set_line_cap(g, cap) == [g EXCEPT !.stroke.cap = cap]

plutovg_canvas_set_line_join(g, join) == [g EXCEPT !.stroke.join = join]

plutovg_canvas_set_dash_offset(g, offset) == [g EXCEPT !.stroke.offset = offset]

plutovg_canvas_set_dash_array(g, dashes) == [g EXCEPT !.stroke.dash = dashes]

\* the clip region is intersected with the geometry as the active matrix maps it
plutovg_canvas_clip_rect(g, r) == [g EXCEPT !.clip = @ \cap Region(g.matrix, r)]

plutovg_canvas_clip_path(g, box) == [g EXCEPT !.clip = @ \cap Region(g.matrix, box)]

\* what the backend is handed by a call that draws or clips: the Canvas method
\* and its arguments, the backend call, and the drawing state it acts in
Drawn(by, call, args, g) == [by |-> by, call |-> call, args |-> args, g |-> g]

\* the arguments of a Canvas method, those it does not take at their defaults
NoArgs ==
    [T |-> Identity, rule |-> "NonZero", mode |-> "Src_Over", sd |-> DefaultStroke,
     dst |-> RectEmpty]

\* what lastCall holds after a method other than drawImage
NoCall == [dst |-> RectEmpty, src |-> RectEmpty, divisors |-> <<>>]

\* the frame of every Canvas method, c the record of the call
StepCall(op, c) ==
    /\ nops < MaxOps
    /\ nops' = nops + 1
    /\ lastOp' = op
    /\ lastCall' = c
    /\ UNCHANGED <<pathVars, created, restVars>>

Step(op) == StepCall(op, NoCall)


(***************************************************************************)
(* Canvas                                                                  *)
(***************************************************************************)
\* Canvas::setColor, lines 394-402
setColor ==
    /\ Step("setColor")
    /\ states' = SetTop(states, plutovg_canvas_set_rgba(Top(states), "red"))
    /\ UNCHANGED <<drawn, saved>>

\* Canvas::setLinearGradient, lines 404-409
setLinearGradient(T) ==
    /\ Step("setLinearGradient")
    /\ LET paint == plutovg_paint_create_linear_gradient(T) IN
        states' = SetTop(states, plutovg_canvas_set_paint(Top(states), paint))
    /\ UNCHANGED <<drawn, saved>>

\* Canvas::setRadialGradient, lines 411-416
setRadialGradient(T) ==
    /\ Step("setRadialGradient")
    /\ LET paint == plutovg_paint_create_radial_gradient(T) IN
        states' = SetTop(states, plutovg_canvas_set_paint(Top(states), paint))
    /\ UNCHANGED <<drawn, saved>>

\* Canvas::setTexture, lines 418-423
setTexture(T) ==
    /\ Step("setTexture")
    /\ LET paint == plutovg_paint_create_texture("source", T) IN
        states' = SetTop(states, plutovg_canvas_set_paint(Top(states), paint))
    /\ UNCHANGED <<drawn, saved>>

\* fillPath without the reset of the matrix
fillPath_noreset(rule, T) ==
    /\ Step("fillPath")
    /\ LET g2 == plutovg_canvas_translate(Top(states), -m_x, -m_y)
           g3 == plutovg_canvas_transform(g2, T)
           g4 == plutovg_canvas_set_fill_rule(g3, rule)
           g5 == plutovg_canvas_set_operator(g4, "Src_Over")
       IN  /\ states' = SetTop(states, g5)
           /\ drawn' = Drawn("fillPath", "fill_path", [NoArgs EXCEPT !.T = T, !.rule = rule], g5)
    /\ UNCHANGED saved

\* Canvas::fillPath, lines 425-433
fillPath(rule, T) ==
    /\ Step("fillPath")
    /\ LET g1 == plutovg_canvas_reset_matrix(Top(states))
           g2 == plutovg_canvas_translate(g1, -m_x, -m_y)
           g3 == plutovg_canvas_transform(g2, T)
           g4 == plutovg_canvas_set_fill_rule(g3, rule)
           g5 == plutovg_canvas_set_operator(g4, "Src_Over")
       IN  /\ states' = SetTop(states, g5)
           /\ drawn' = Drawn("fillPath", "fill_path", [NoArgs EXCEPT !.T = T, !.rule = rule], g5)
    /\ UNCHANGED saved

\* strokePath without setting the operator
strokePath_keepop(sd, T) ==
    /\ Step("strokePath")
    /\ LET g1 == plutovg_canvas_reset_matrix(Top(states))
           g2 == plutovg_canvas_translate(g1, -m_x, -m_y)
           g3 == plutovg_canvas_transform(g2, T)
           g4 == plutovg_canvas_set_line_width(g3, sd.width)
           g5 == plutovg_canvas_set_miter_limit(g4, sd.miter)
           g6 == plutovg_canvas_set_line_cap(g5, sd.cap)
           g7 == plutovg_canvas_set_line_join(g6, sd.join)
           g8 == plutovg_canvas_set_dash_offset(g7, sd.offset)
           g9 == plutovg_canvas_set_dash_array(g8, sd.dash)
       IN  /\ states' = SetTop(states, g9)
           /\ drawn' = Drawn("strokePath", "stroke_path", [NoArgs EXCEPT !.T = T, !.sd = sd], g9)
    /\ UNCHANGED saved

\* strokePath that sets the dash offset and the dash array only for a dash
\* array that is not empty
strokePath_nodash(sd, T) ==
    /\ Step("strokePath")
    /\ LET g1 == plutovg_canvas_reset_matrix(Top(states))
           g2 == plutovg_canvas_translate(g1, -m_x, -m_y)
           g3 == plutovg_canvas_transform(g2, T)
           g4 == plutovg_canvas_set_line_width(g3, sd.width)
           g5 == plutovg_canvas_set_miter_limit(g4, sd.miter)
           g6 == plutovg_canvas_set_line_cap(g5, sd.cap)
           g7 == plutovg_canvas_set_line_join(g6, sd.join)
           g8 == IF sd.dash = <<>> THEN g7 ELSE plutovg_canvas_set_dash_offset(g7, sd.offset)
           g9 == IF sd.dash = <<>> THEN g8 ELSE plutovg_canvas_set_dash_array(g8, sd.dash)
           g10 == plutovg_canvas_set_operator(g9, "Src_Over")
       IN  /\ states' = SetTop(states, g10)
           /\ drawn' = Drawn("strokePath", "stroke_path", [NoArgs EXCEPT !.T = T, !.sd = sd], g10)
    /\ UNCHANGED saved

\* Canvas::strokePath, lines 435-448
strokePath(sd, T) ==
    /\ Step("strokePath")
    /\ LET g1 == plutovg_canvas_reset_matrix(Top(states))
           g2 == plutovg_canvas_translate(g1, -m_x, -m_y)
           g3 == plutovg_canvas_transform(g2, T)
           g4 == plutovg_canvas_set_line_width(g3, sd.width)
           g5 == plutovg_canvas_set_miter_limit(g4, sd.miter)
           g6 == plutovg_canvas_set_line_cap(g5, sd.cap)
           g7 == plutovg_canvas_set_line_join(g6, sd.join)
           g8 == plutovg_canvas_set_dash_offset(g7, sd.offset)
           g9 == plutovg_canvas_set_dash_array(g8, sd.dash)
           g10 == plutovg_canvas_set_operator(g9, "Src_Over")
       IN  /\ states' = SetTop(states, g10)
           /\ drawn' = Drawn("strokePath", "stroke_path", [NoArgs EXCEPT !.T = T, !.sd = sd], g10)
    /\ UNCHANGED saved

\* Canvas::clipPath, lines 450-457
clipPath(rule, T) ==
    /\ Step("clipPath")
    /\ LET g1 == plutovg_canvas_reset_matrix(Top(states))
           g2 == plutovg_canvas_translate(g1, -m_x, -m_y)
           g3 == plutovg_canvas_transform(g2, T)
           g4 == plutovg_canvas_set_fill_rule(g3, rule)
           g5 == plutovg_canvas_clip_path(g4, PathBox)
       IN  /\ states' = SetTop(states, g5)
           /\ drawn' = Drawn("clipPath", "clip_path", [NoArgs EXCEPT !.T = T, !.rule = rule], g5)
    /\ UNCHANGED saved

\* Canvas::clipRect, lines 459-466
clipRect(rule, T) ==
    /\ Step("clipRect")
    /\ LET g1 == plutovg_canvas_reset_matrix(Top(states))
           g2 == plutovg_canvas_translate(g1, -m_x, -m_y)
           g3 == plutovg_canvas_transform(g2, T)
           g4 == plutovg_canvas_set_fill_rule(g3, rule)
           g5 == plutovg_canvas_clip_rect(g4, ClipRectArg)
       IN  /\ states' = SetTop(states, g5)
           /\ drawn' = Drawn("clipRect", "clip_rect", [NoArgs EXCEPT !.T = T, !.rule = rule], g5)
    /\ UNCHANGED saved

\* Canvas::blendCanvas, lines 468-479
blendCanvas(mode) ==
    /\ Step("blendCanvas")
    /\ LET transform == translated(SourceOrigin[1], SourceOrigin[2])
           paint == plutovg_paint_create_texture("canvas", Identity)
           g1 == plutovg_canvas_reset_matrix(Top(states))
           g2 == plutovg_canvas_translate(g1, -m_x, -m_y)
           g3 == plutovg_canvas_transform(g2, transform)
           g4 == plutovg_canvas_set_operator(g3, mode)
           g5 == plutovg_canvas_set_paint(g4, paint)
       IN  /\ states' = SetTop(states, g5)
           /\ drawn' = Drawn("blendCanvas", "paint", [NoArgs EXCEPT !.mode = mode], g5)
    /\ UNCHANGED saved

\* drawImage that returns early only for an empty srcRect
drawImage_srconly(dstRect, srcRect, T) ==
    /\ IF isEmptyRect(srcRect)
       THEN /\ StepCall("drawImage", [dst |-> dstRect, src |-> srcRect, divisors |-> <<>>])
            /\ UNCHANGED <<states, drawn>>
       ELSE LET xScale == dstRect[3] \div srcRect[3]
                yScale == dstRect[4] \div srcRect[4]
                matrix == <<xScale, 0, 0, yScale, -srcRect[1] * xScale, -srcRect[2] * yScale>>
                paint == plutovg_paint_create_texture("image", matrix)
                g1 == plutovg_canvas_reset_matrix(Top(states))
                g2 == plutovg_canvas_translate(g1, -m_x, -m_y)
                g3 == plutovg_canvas_transform(g2, T)
                g4 == plutovg_canvas_translate(g3, dstRect[1], dstRect[2])
                g5 == plutovg_canvas_set_fill_rule(g4, "NonZero")
                g6 == plutovg_canvas_clip_rect(g5, <<0, 0, dstRect[3], dstRect[4]>>)
                g7 == plutovg_canvas_set_operator(g6, "Src_Over")
                g8 == plutovg_canvas_set_paint(g7, paint)
            IN  /\ StepCall("drawImage", [dst |-> dstRect, src |-> srcRect,
                                          divisors |-> <<srcRect[3], srcRect[4]>>])
                /\ states' = SetTop(states, g8)
                /\ drawn' = Drawn("drawImage", "paint", [NoArgs EXCEPT !.T = T, !.dst = dstRect], g8)
    /\ UNCHANGED saved

\* Canvas::drawImage, lines 481-502.  The early return comes before the
\* scales are computed; lastCall keeps the extents the scales were divided by.
drawImage(dstRect, srcRect, T) ==
    /\ IF isEmptyRect(dstRect) \/ isEmptyRect(srcRect)
       THEN /\ StepCall("drawImage", [dst |-> dstRect, src |-> srcRect, divisors |-> <<>>])
            /\ UNCHANGED <<states, drawn>>
       ELSE LET xScale == dstRect[3] \div srcRect[3]
                yScale == dstRect[4] \div srcRect[4]
                matrix == <<xScale, 0, 0, yScale, -srcRect[1] * xScale, -srcRect[2] * yScale>>
                paint == plutovg_paint_create_texture("image", matrix)
                g1 == plutovg_canvas_reset_matrix(Top(states))
                g2 == plutovg_canvas_translate(g1, -m_x, -m_y)
                g3 == plutovg_canvas_transform(g2, T)
                g4 == plutovg_canvas_translate(g3, dstRect[1], dstRect[2])
                g5 == plutovg_canvas_set_fill_rule(g4, "NonZero")
                g6 == plutovg_canvas_clip_rect(g5, <<0, 0, dstRect[3], dstRect[4]>>)
                g7 == plutovg_canvas_set_operator(g6, "Src_Over")
                g8 == plutovg_canvas_set_paint(g7, paint)
            IN  /\ StepCall("drawImage", [dst |-> dstRect, src |-> srcRect,
                                          divisors |-> <<srcRect[3], srcRect[4]>>])
                /\ states' = SetTop(states, g8)
                /\ drawn' = Drawn("drawImage", "paint", [NoArgs EXCEPT !.T = T, !.dst = dstRect], g8)
    /\ UNCHANGED saved

\* save() that pushes nothing
save_nopush ==
    /\ Step("save")
    /\ saved' = Append(saved, [clip |-> Top(states).clip, paint |-> Top(states).paint])
    /\ UNCHANGED <<states, drawn>>

\* Canvas::save, lines 504-507
save ==
    /\ Step("save")
    /\ states' = plutovg_canvas_save(states)
    /\ saved' = Append(saved, [clip |-> Top(states).clip, paint |-> Top(states).paint])
    /\ UNCHANGED drawn

\* Canvas::restore, lines 509-512
restore ==
    /\ Step("restore")
    /\ states' = plutovg_canvas_restore(states)
    /\ saved' = IF saved = <<>> THEN saved ELSE SubSeq(saved, 1, Len(saved) - 1)
    /\ UNCHANGED drawn

InitCanvas ==
    /\ states = <<InitState>>
    /\ drawn = Drawn("none", "none", NoArgs, InitState)
    /\ lastOp = "none"
    /\ saved = <<>>
    /\ nops = 0
    /\ lastCall = NoCall

NextCanvas ==
    \/ setColor
    \/ setLinearGradient(PaintTransform)
    \/ setRadialGradient(PaintTransform)
    \/ setTexture(PaintTransform)
    \/ \E rule \in FillRules, T \in Transforms : fillPath(rule, T)
    \/ \E sd \in StrokeDatas, T \in Transforms : strokePath(sd, T)
    \/ \E rule \in FillRules, T \in Transforms : clipPath(rule, T)
    \/ \E rule \in FillRules, T \in Transforms : clipRect(rule, T)
    \/ \E mode \in BlendModes : blendCanvas(mode)
    \/ \E dstRect \in DstRects, srcRect \in SrcRects, T \in Transforms :
          drawImage(dstRect, srcRect, T)
    \/ save
    \/ restore

InitC == InitCanvas /\ InitPath /\ IdleCreate /\ IdleRest

SpecCanvas == InitC /\ [][NextCanvas]_vars


(***************************************************************************)
(* Claims about Canvas, checked under SpecCanvas.                          *)
(***************************************************************************)
DrawsWithTransform == {"fillPath", "strokePath", "clipPath", "clipRect"}

\* the matrix that maps p to T(p) - (m_x, m_y)
OriginThen(T) == <<T[1], T[2], T[3], T[4], T[5] - m_x, T[6] - m_y>>

\* the matrix that maps p to T(p + (dx, dy)) - (m_x, m_y)
OriginThenAt(T, dx, dy) ==
    <<T[1], T[2], T[3], T[4],
      T[1] * dx + T[3] * dy + T[5] - m_x, T[2] * dx + T[4] * dy + T[6] - m_y>>

\* C2: when fillPath, strokePath, clipPath or clipRect hands its geometry to
\* the backend, the active matrix is the translation by minus the origin
\* applied after the call's transform, whatever calls came before; for
\* blendCanvas it is that translation after the translation to the source's
\* origin, and for drawImage after the transform after the translation to
\* dstRect's corner.
C2_MatrixReestablished ==
    /\ drawn.by \in DrawsWithTransform => drawn.g.matrix = OriginThen(drawn.args.T)
    /\ drawn.by = "blendCanvas" =>
          drawn.g.matrix = OriginThen(translated(SourceOrigin[1], SourceOrigin[2]))
    /\ drawn.by = "drawImage" =>
          drawn.g.matrix = OriginThenAt(drawn.args.T, drawn.args.dst[1], drawn.args.dst[2])

\* a draw under the scaling transform, while the state saved before it holds
\* the matrix another call left
C2_Witness ==
    /\ drawn.by \in DrawsWithTransform
    /\ drawn.args.T = scaled(2, 2)
    /\ Len(states) >= 2
    /\ states[1].matrix \notin {Identity, drawn.g.matrix}

\* C5: restore() after a save() makes the clip region and the paint those that
\* were active at that save(), whatever ran in between (nested pairs included).
C5_RestoreReinstates ==
    [][(lastOp' = "restore" /\ saved # <<>>) =>
          /\ Top(states').clip = saved[Len(saved)].clip
          /\ Top(states').paint = saved[Len(saved)].paint]_vars

\* restore() has just undone the clip and the paint of a drawImage that ran
\* since the save()
C5_Witness ==
    /\ lastOp = "restore"
    /\ drawn.by = "drawImage"
    /\ drawn.g.clip # Top(states).clip
    /\ drawn.g.paint # Top(states).paint

\* C6: only clipPath, clipRect and restore change the clip region.
C6_ClipChangedOnlyExplicitly ==
    [][lastOp' \notin {"clipPath", "clipRect", "restore"} =>
          Top(states').clip = Top(states).clip]_vars

\* C7: fillPath, strokePath and drawImage reach the backend with the
\* source-over operator active, and fillPath, clipPath and clipRect with the
\* fill rule they were passed.
C7_OperatorAndFillRule ==
    /\ drawn.by \in {"fillPath", "strokePath", "drawImage"} => drawn.g.op = "Src_Over"
    /\ drawn.by \in {"fillPath", "clipPath", "clipRect"} => drawn.g.winding = drawn.args.rule

\* a path is drawn while the state saved before it still holds the operator
\* and the fill rule that earlier calls set
C7_Witness ==
    /\ drawn.by \in {"fillPath", "strokePath"}
    /\ Len(states) >= 2
    /\ states[1].op = "Dst_In"

\* C11: a drawImage whose dstRect or srcRect is empty (a width or height that
\* is zero or negative) changes nothing: the stack of drawing states (matrix,
\* clip, paint and operator) and the record of the last backend call are left
\* as they were, and nothing is divided by a source extent.
C11_EmptyRectIsNoOp ==
    [][(lastOp' = "drawImage" /\ (isEmptyRect(lastCall'.dst) \/ isEmptyRect(lastCall'.src))) =>
          /\ states' = states
          /\ drawn' = drawn
          /\ lastCall'.divisors = <<>>]_vars

\* drawImage has just returned early for a srcRect of width zero and a dstRect
\* that is not empty, on a canvas whose matrix, clip and operator earlier
\* calls had changed
C11_Witness ==
    /\ lastOp = "drawImage"
    /\ isEmptyRect(lastCall.src)
    /\ ~isEmptyRect(lastCall.dst)
    /\ lastCall.src[3] = 0
    /\ Top(states).matrix # Identity
    /\ Top(states).clip # Surface
    /\ Top(states).op = "Dst_In"

\* C16: when strokePath hands its path to the backend, the line width, miter
\* limit, cap, join, dash offset and dash array of the drawing state are those
\* of the StrokeData it was passed, whatever earlier calls had set.
C16_StrokeStyleReapplied ==
    drawn.by = "strokePath" =>
        /\ drawn.g.stroke.width = drawn.args.sd.width
        /\ drawn.g.stroke.miter = drawn.args.sd.miter
        /\ drawn.g.stroke.cap = drawn.args.sd.cap
        /\ drawn.g.stroke.join = drawn.args.sd.join
        /\ drawn.g.stroke.offset = drawn.args.sd.offset
        /\ drawn.g.stroke.dash = drawn.args.sd.dash

\* a path is stroked without dashes while the state saved before it still
\* holds the dash array and the offset of an earlier, dashed strokePath
C16_Witness ==
    /\ drawn.by = "strokePath"
    /\ drawn.args.sd.dash = <<>>
    /\ drawn.g.stroke.dash = <<>>
    /\ Len(states) >= 2
    /\ states[1].stroke.dash = <<1, 2>>
    /\ states[1].stroke.offset = 1

\* C18: fillPath, strokePath, clipPath, clipRect, blendCanvas and drawImage
\* leave the active paint as it was, so that a path is painted with the paint
\* the last setColor, setLinearGradient, setRadialGradient or setTexture chose.
C18_DrawingKeepsPaint ==
    [][lastOp' \in {"fillPath", "strokePath", "clipPath", "clipRect", "blendCanvas", "drawImage"} =>
          Top(states').paint = Top(states).paint]_vars

(***************************************************************************)
(* Canvas::create.  A float is held as twice its value (every input used   *)
(* is a multiple of one half); sums are rounded to the 24-bit significand  *)
(* of a float, ties to even.                                               *)
(***************************************************************************)
kMaxSize == 16777216

RECURSIVE Ulp(_)
\* the spacing of the floats around a (a >= 0), in halves
Ulp(a) == IF a < 2 * kMaxSize THEN 1 ELSE 2 * Ulp(a \div 2)

Abs(n) == IF n < 0 THEN -n ELSE n

\* the float nearest to n
FloatRound(n) ==
    LET a == Abs(n)
        u == Ulp(a)
        q == a \div u
        r == a % u
        up == IF 2 * r > u THEN TRUE ELSE IF 2 * r < u THEN FALSE ELSE q % 2 = 1
        v == IF up THEN (q + 1) * u ELSE q * u
    IN  IF n < 0 THEN -v ELSE v

\* x + y of two floats
FloatAdd(x, y) == FloatRound(x + y)

\* static_cast<int>(std::floor(v)) and static_cast<int>(std::ceil(v))
FloorInt(n) == n \div 2

CeilInt(n) == -((-n) \div 2)

\* the conversion of a float argument to an int parameter: toward zero
TruncInt(n) == IF n >= 0 THEN n \div 2 ELSE -((-n) \div 2)

\* Canvas::Canvas(int, int, int, int), lines 556-561: the origin, and the
\* width and height plutovg_surface_create is asked for
CanvasCtor(x, y, width, height) == [x |-> x, y |-> y, width |-> width, height |-> height]

\* 2^24 - 1/2, 2^23 and 2^24 are floats; so is 2^24 + 2
CoordInputs == {-1, 0, 1, kMaxSize, 2 * kMaxSize}

SizeInputs == {-2, 0, 1, 3, 2 * kMaxSize, 2 * kMaxSize + 4}

RectInputs ==
    { <<0, 0, 0, 0>>, <<0, 0, -2, -2>>, <<1, 1, 3, 3>>, <<-1, 0, 2 * kMaxSize + 4, 2>> }

\* Canvas::create(float, float, float, float), lines 377-387
createXYWH(x, y, width, height) ==
    LET l == FloorInt(x)
        t == FloorInt(y)
        r == CeilInt(FloatAdd(x, width))
        b == CeilInt(FloatAdd(y, height))
        canvas == IF width <= 0 \/ height <= 0 \/ width > 2 * kMaxSize \/ height > 2 * kMaxSize
                  THEN CanvasCtor(0, 0, 1, 1)
                  ELSE CanvasCtor(l, t, r - l, b - t)
    IN  /\ created' = [form |-> "xywh", args |-> <<x, y, width, height>>, canvas |-> canvas]
        /\ UNCHANGED <<pathVars, canvasVars, restVars>>

\* Canvas::create(const Rect&), lines 389-392
createRect(extents) ==
    LET canvas == CanvasCtor(TruncInt(extents[1]), TruncInt(extents[2]),
                             TruncInt(extents[3]), TruncInt(extents[4]))
    IN  /\ created' = [form |-> "rect", args |-> extents, canvas |-> canvas]
        /\ UNCHANGED <<pathVars, canvasVars, restVars>>

NextCreate ==
    \/ \E x, y \in CoordInputs, width, height \in SizeInputs : createXYWH(x, y, width, height)
    \/ \E extents \in RectInputs : createRect(extents)

InitF == InitPath /\ IdleCanvas /\ IdleCreate /\ IdleRest

SpecCreate == InitF /\ [][NextCreate]_vars

(***************************************************************************)
(* Claims about Canvas::create, checked under SpecCreate.                  *)
(***************************************************************************)
\* C9: create(x, y, w, h) with w or h not positive or above 2^24 gives the
\* 1 x 1 canvas at (0, 0); any other call gives origin (floor x, floor y) and
\* extent (ceil(x + w) - floor x, ceil(y + h) - floor y), which covers the rect.
C9_CreateCoversRect ==
    created.form = "xywh" =>
        LET x == created.args[1]
            y == created.args[2]
            w == created.args[3]
            h == created.args[4]
            c == created.canvas
        IN  IF w <= 0 \/ h <= 0 \/ w > 2 * kMaxSize \/ h > 2 * kMaxSize
            THEN c = CanvasCtor(0, 0, 1, 1)
            ELSE /\ c.x = FloorInt(x) /\ c.y = FloorInt(y)
                 /\ c.width = CeilInt(x + w) - FloorInt(x)
                 /\ c.height = CeilInt(y + h) - FloorInt(y)
                 /\ 2 * c.x <= x /\ x + w <= 2 * (c.x + c.width)
                 /\ 2 * c.y <= y /\ y + h <= 2 * (c.y + c.height)

\* C10: no form of create asks the backend for a surface narrower or lower
\* than 1 or wider or higher than 2^24.
C10_RequestWithinLimits ==
    created.form # "none" =>
        /\ 1 <= created.canvas.width /\ created.canvas.width <= kMaxSize
        /\ 1 <= created.canvas.height /\ created.canvas.height <= kMaxSize

(***************************************************************************)
(* Canvas::convertToLuminanceMask.  The surface's memory is a map from     *)
(* byte offsets (multiples of 4) to 32-bit words; a word is held as its    *)
(* four bytes <<alpha, R, G, B>>, most significant first.  Rows are Stride *)
(* bytes apart, the first MaskWidth words of a row are its pixels and the  *)
(* rest padding.                                                           *)
(***************************************************************************)
MaskWidth == 2     \* plutovg_surface_get_width
MaskHeight == 2    \* plutovg_surface_get_height
MaskPad == 1       \* words of padding that end each row

Stride == 4 * (MaskWidth + MaskPad)    \* plutovg_surface_get_stride, in bytes

Offsets == {4 * i : i \in 0 .. (MaskWidth + MaskPad) * MaskHeight - 1}

Pixel(a, r, g, b) == <<a, r, g, b>>

\* (word >> shift) & 0xFF, for a shift of 24, 16, 8 or 0
ShiftRightAndFF(word, shift) == word[4 - shift \div 8]

\* l << 24 in 32 bits: the low byte of l becomes the top byte, the rest is lost
ShiftLeft24(l) == <<l % 256, 0, 0, 0>>

\* opaque red, transparent white, and a half-transparent near-black
PixelInputs == {Pixel(255, 255, 0, 0), Pixel(0, 255, 255, 255), Pixel(128, 1, 2, 3)}

PadWord == Pixel(171, 205, 239, 1)

\* the memories the surface may hold when the method is called
Surfaces ==
    LET InRow == {o \in Offsets : (o % Stride) \div 4 < MaskWidth} IN
        {[o \in Offsets |-> IF o \in InRow THEN f[o] ELSE PadWord] : f \in [InRow -> PixelInputs]}

\* line 531 with a row pitch of four bytes a pixel
pixels_packed(y) == 4 * MaskWidth * y

\* line 531: pixels = data + stride * y, as a byte offset
pixels(y) == Stride * y

\* lines 533-538: the word stored for the word read (uint32_t arithmetic)
luminance(pixel) ==
    LET r == ShiftRightAndFF(pixel, 16)
        g == ShiftRightAndFF(pixel, 8)
        b == ShiftRightAndFF(pixel, 0)
        l == (2 * r + 3 * g + b) \div 6
    IN  ShiftLeft24(l)

\* lines 532-539: the body of the inner loop, for the pixel at (mask.x, mask.y)
convertPixel ==
    /\ mask.y < MaskHeight
    /\ mask.x < MaskWidth
    /\ LET o == pixels(mask.y) + 4 * mask.x IN
        mask' = [mask EXCEPT !.data[o] = luminance(mask.data[o]),
                             !.visits[o] = @ + 1,
                             !.x = @ + 1]
    /\ UNCHANGED <<pathVars, canvasVars, created, xform, iter, conc>>

\* line 530: the inner loop has ended, the outer loop goes to the next row
nextRow ==
    /\ mask.y < MaskHeight
    /\ mask.x >= MaskWidth
    /\ mask' = [mask EXCEPT !.y = @ + 1, !.x = 0]
    /\ UNCHANGED <<pathVars, canvasVars, created, xform, iter, conc>>

\* Canvas::convertToLuminanceMask, lines 524-541
convertToLuminanceMask == convertPixel \/ nextRow

InitMask ==
    /\ mask \in
          {[data |-> d, orig |-> d, x |-> 0, y |-> 0, visits |-> [o \in Offsets |-> 0]] :
              d \in Surfaces}
    /\ xform = <<>>
    /\ iter = <<>>
    /\ conc = <<>>

InitM == InitMask /\ InitPath /\ IdleCanvas /\ IdleCreate

NextMask == convertToLuminanceMask

SpecMask == InitM /\ [][NextMask]_vars

(***************************************************************************)
(* Claims about convertToLuminanceMask, checked under SpecMask.            *)
(***************************************************************************)
MaskDone == mask.y >= MaskHeight

\* C12: no word is transformed twice, and when the method returns every pixel
\* (x, y) of the surface, at byte offset stride * y + 4 * x, has been
\* transformed once and holds alpha (2R + 3G + B) div 6 of its old channels
\* (at most 255) over R = G = B = 0, while every other word of the memory
\* holds what it held.
C12_LuminanceMask ==
    /\ \A o \in Offsets : mask.visits[o] <= 1
    /\ MaskDone =>
          /\ \A x \in 0 .. MaskWidth - 1, y \in 0 .. MaskHeight - 1 :
                LET o == 4 * (MaskWidth + MaskPad) * y + 4 * x
                    old == mask.orig[o]
                    l == (2 * old[2] + 3 * old[3] + old[4]) \div 6
                IN  /\ mask.visits[o] = 1
                    /\ l <= 255
                    /\ mask.data[o] = <<l, 0, 0, 0>>
          /\ \A o \in Offsets :
                (o % (4 * (MaskWidth + MaskPad))) \div 4 >= MaskWidth =>
                    mask.data[o] = mask.orig[o] /\ mask.visits[o] = 0

\* the method has returned on a surface whose first pixel was opaque red (now
\* alpha 85) and whose last pixel was transparent white (now alpha 255)
C12_Witness ==
    /\ MaskDone
    /\ mask.orig[0] = Pixel(255, 255, 0, 0)
    /\ mask.data[0] = Pixel(85, 0, 0, 0)
    /\ mask.orig[Stride * (MaskHeight - 1) + 4 * (MaskWidth - 1)] = Pixel(0, 255, 255, 255)
    /\ mask.data[Stride * (MaskHeight - 1) + 4 * (MaskWidth - 1)] = Pixel(255, 0, 0, 0)

(***************************************************************************)
(* Transform.  Matrices are held with exact entries: the inputs are whole  *)
(* numbers, angles are multiples of 90 (rotation) or 45 (shear) degrees    *)
(* with their sine, cosine and tangent taken exact, and a matrix is        *)
(* inverted only where its inverse has whole entries (or does not exist).  *)
(***************************************************************************)
MaxXformOps == 2   \* Transform methods called in one run

Det(m) == m[1] * m[4] - m[2] * m[3]

Cos(angle) == IF angle = 0 THEN 1 ELSE IF angle = 180 THEN -1 ELSE 0

Sin(angle) == IF angle = 90 THEN 1 ELSE IF angle = 270 THEN -1 ELSE 0

Tan(angle) == IF angle = 45 THEN 1 ELSE 0

\* Transform::rotated(angle), lines 166-171
rotated(angle) == <<Cos(angle), Sin(angle), -Sin(angle), Cos(angle), 0, 0>>

\* Transform::sheared, lines 189-194
sheared(shx, shy) == <<1, Tan(shy), Tan(shx), 1, 0, 0>>

\* operator* with the operands of plutovg_matrix_multiply in the other order
operatorTimes_swapped(this, transform) == plutovg_matrix_multiply(this, transform)

\* Transform::operator*, lines 39-44: *this * transform
operatorTimes(this, transform) == plutovg_matrix_multiply(transform, this)

\* the inverse of m, entry by entry, for Det(m) # 0
InverseEntries(m) ==
    << m[4], -m[2], -m[3], m[1],
       m[3] * m[6] - m[4] * m[5], m[2] * m[5] - m[1] * m[6] >>

\* the inverse of m has whole entries
ExactInverse(m) ==
    Det(m) # 0 /\ \A i \in 1 .. 6 : InverseEntries(m)[i] % Abs(Det(m)) = 0

Quotient(a, b) == IF (a < 0) = (b < 0) THEN Abs(a) \div Abs(b) ELSE -(Abs(a) \div Abs(b))

\* plutovg_matrix_invert(matrix, inverse): whether it succeeded, and what
\* *inverse holds afterwards; a matrix of determinant zero is not inverted
\* and *inverse is left as it was
plutovg_matrix_invert(matrix, inverse) ==
    IF Det(matrix) = 0 THEN [ok |-> FALSE, inverse |-> inverse]
    ELSE [ok |-> TRUE,
          inverse |-> [i \in 1 .. 6 |-> Quotient(InverseEntries(matrix)[i], Det(matrix))]]

\* plutovg_matrix_map_rect: the box of the four mapped corners
plutovg_matrix_map_rect(m, r) ==
    LET cs == { plutovg_matrix_map(m, r[1], r[2]), plutovg_matrix_map(m, r[1] + r[3], r[2]),
                plutovg_matrix_map(m, r[1], r[2] + r[4]),
                plutovg_matrix_map(m, r[1] + r[3], r[2] + r[4]) }
        xs == {c[1] : c \in cs}
        ys == {c[2] : c \in cs}
    IN  <<Min(xs), Min(ys), Max(xs) - Min(xs), Max(ys) - Min(ys)>>

\* Rect::Invalid, line 14
RectInvalid == <<0, 0, -1, -1>>

\* Rect::isValid
isValid(r) == r[3] >= 0 /\ r[4] >= 0

\* what an uninitialised plutovg_matrix_t may hold
Uninitialised == {Identity, <<0, 0, 0, 0, 0, 0>>, <<7, 5, 3, 2, 1, 9>>}

TransformInputs ==
    {translated(1, 2), scaled(2, 3), rotated(90), sheared(45, 0), scaled(0, 1), scaled(-1, 1)}

MapRectInputs == {RectInvalid, <<1, 1, -2, 3>>, <<1, 1, 2, -3>>, <<1, 2, 2, 1>>, RectEmpty}

\* the record of a Transform method: the matrix before and after, the
\* method's arguments, what it returned, and whether what it returned or left
\* in the matrix is the content of an object that was never written
XformRecord(m, op, old, arg, ret, indeterminate, n) ==
    [m |-> m, op |-> op, old |-> old, arg |-> arg, ret |-> ret,
     indeterminate |-> indeterminate, n |-> n]

\* the frame of every Transform method
XformStep(m, op, arg, ret, indeterminate) ==
    /\ xform.n < MaxXformOps
    /\ xform' = XformRecord(m, op, xform.m, arg, ret, indeterminate, xform.n + 1)
    /\ UNCHANGED <<pathVars, canvasVars, created, mask, iter, conc>>

\* Transform::multiply, lines 51-54
multiply(transform) ==
    /\ XformStep(operatorTimes(xform.m, transform), "multiply", transform, <<>>, FALSE)

\* Transform::rotate(angle), lines 56-59
rotate(angle) ==
    /\ XformStep(operatorTimes(xform.m, rotated(angle)), "rotate", <<angle>>, <<>>, FALSE)

\* Transform::scale, lines 66-69
scale(sx, sy) ==
    /\ XformStep(operatorTimes(xform.m, scaled(sx, sy)), "scale", <<sx, sy>>, <<>>, FALSE)

\* Transform::shear, lines 71-74
shear(shx, shy) ==
    /\ XformStep(operatorTimes(xform.m, sheared(shx, shy)), "shear", <<shx, shy>>, <<>>, FALSE)

\* Transform::translate, lines 76-79
translate(tx, ty) ==
    /\ XformStep(operatorTimes(xform.m, translated(tx, ty)), "translate", <<tx, ty>>, <<>>, FALSE)

\* Transform::postMultiply, lines 81-84
postMultiply(transform) ==
    /\ XformStep(operatorTimes(transform, xform.m), "postMultiply", transform, <<>>, FALSE)

\* Transform::postRotate(angle), lines 86-89
postRotate(angle) ==
    /\ XformStep(operatorTimes(rotated(angle), xform.m), "postRotate", <<angle>>, <<>>, FALSE)

\* Transform::postScale, lines 96-99
postScale(sx, sy) ==
    /\ XformStep(operatorTimes(scaled(sx, sy), xform.m), "postScale", <<sx, sy>>, <<>>, FALSE)

\* Transform::postShear, lines 101-104
postShear(shx, shy) ==
    /\ XformStep(operatorTimes(sheared(shx, shy), xform.m), "postShear", <<shx, shy>>, <<>>, FALSE)

\* Transform::postTranslate, lines 106-109
postTranslate(tx, ty) ==
    /\ XformStep(operatorTimes(translated(tx, ty), xform.m), "postTranslate", <<tx, ty>>, <<>>, FALSE)

\* Transform::inverse, lines 111-116: the local `inverse` is not initialised,
\* and the result of plutovg_matrix_invert is not looked at
inverse ==
    /\ Det(xform.m) = 0 \/ ExactInverse(xform.m)
    /\ \E local \in Uninitialised :
          LET r == plutovg_matrix_invert(xform.m, local) IN
              XformStep(xform.m, "inverse", <<>>, r.inverse, ~r.ok)

\* Transform::invert, lines 118-122
invert ==
    /\ Det(xform.m) = 0 \/ ExactInverse(xform.m)
    /\ LET r == plutovg_matrix_invert(xform.m, xform.m) IN
          XformStep(r.inverse, "invert", <<>>, r.inverse, FALSE)

\* mapRect that maps every rect
mapRect_unchecked(rect) ==
    /\ XformStep(xform.m, "mapRect", rect, plutovg_matrix_map_rect(xform.m, rect), FALSE)

\* Transform::mapRect, lines 140-149
mapRect(rect) ==
    IF ~isValid(rect)
    THEN XformStep(xform.m, "mapRect", rect, RectInvalid, FALSE)
    ELSE XformStep(xform.m, "mapRect", rect, plutovg_matrix_map_rect(xform.m, rect), FALSE)

InitTransform ==
    /\ xform \in {XformRecord(m, "none", m, <<>>, <<>>, FALSE, 0) :
                    m \in TransformInputs \cup {Identity}}
    /\ mask = <<>>
    /\ iter = <<>>
    /\ conc = <<>>

InitT == InitTransform /\ InitPath /\ IdleCanvas /\ IdleCreate

NextTransform ==
    \/ \E transform \in TransformInputs : multiply(transform)
    \/ \E angle \in {90, 180} : rotate(angle)
    \/ scale(2, 3)
    \/ shear(45, 0)
    \/ translate(1, 2)
    \/ \E transform \in TransformInputs : postMultiply(transform)
    \/ \E angle \in {90, 180} : postRotate(angle)
    \/ postScale(2, 3)
    \/ postShear(45, 0)
    \/ postTranslate(1, 2)
    \/ inverse
    \/ invert
    \/ \E rect \in MapRectInputs : mapRect(rect)

SpecTransform == InitT /\ [][NextTransform]_vars

(***************************************************************************)
(* Claims about Transform, checked under SpecTransform.                    *)
(***************************************************************************)
Points == {<<0, 0>>, <<1, 0>>, <<0, 1>>, <<2, 3>>}

At(m, p) == <<m[1] * p[1] + m[3] * p[2] + m[5], m[2] * p[1] + m[4] * p[2] + m[6]>>

\* where the argument of the method that ran last takes the point p: the
\* matrix passed, or the translation, scaling, rotation or shear asked for
ArgAt(p) ==
    CASE xform.op \in {"multiply", "postMultiply"} -> At(xform.arg, p)
      [] xform.op \in {"translate", "postTranslate"} ->
            <<p[1] + xform.arg[1], p[2] + xform.arg[2]>>
      [] xform.op \in {"scale", "postScale"} -> <<p[1] * xform.arg[1], p[2] * xform.arg[2]>>
      [] xform.op \in {"rotate", "postRotate"} ->
            IF xform.arg[1] = 90 THEN <<-p[2], p[1]>> ELSE <<-p[1], -p[2]>>
      [] xform.op \in {"shear", "postShear"} -> <<p[1] + p[2], p[2]>>

PreOps == {"multiply", "translate", "scale", "rotate", "shear"}

PostOps == {"postMultiply", "postTranslate", "postScale", "postRotate", "postShear"}

\* C13: after multiply, translate, scale, rotate or shear the transform takes
\* a point where the old transform takes the argument's image of it (the
\* argument is applied first); after the post* methods it takes a point where
\* the argument takes the old transform's image of it; and for an old
\* transform and a matrix that do not commute the product multiply stores
\* differs from the one postMultiply stores.
C13_CompositionOrder ==
    /\ xform.op \in PreOps => \A p \in Points : At(xform.m, p) = At(xform.old, ArgAt(p))
    /\ xform.op \in PostOps => \A p \in Points : At(xform.m, p) = ArgAt(At(xform.old, p))
    /\ (/\ xform.op \in {"multiply", "postMultiply"}
        /\ \E p \in Points :
              At(xform.old, At(xform.arg, p)) # At(xform.arg, At(xform.old, p)))
          => operatorTimes(xform.old, xform.arg) # operatorTimes(xform.arg, xform.old)

\* postMultiply has run, second of two methods, with a matrix that does not
\* commute with the transform, and has stored another product than multiply
\* would have
C13_Witness ==
    /\ xform.op = "postMultiply"
    /\ xform.n = 2
    /\ \E p \in Points : At(xform.old, At(xform.arg, p)) # At(xform.arg, At(xform.old, p))
    /\ xform.m # operatorTimes(xform.old, xform.arg)

\* C14: inverse() and invert() of a transform with determinant zero give a
\* defined value: what inverse() returns and what invert() leaves in the
\* transform is never the content of an object that was not written.
C14_SingularGivesDefinedValue ==
    (xform.op \in {"inverse", "invert"} /\ Det(xform.old) = 0) => ~xform.indeterminate

\* C15: mapRect of a rect with a negative width or height returns
\* Rect::Invalid = (0, 0, -1, -1), whatever the transform, and leaves the
\* transform as it was; Rect::Invalid is not valid.
C15_MapRectOfInvalid ==
    /\ ~isValid(<<0, 0, -1, -1>>)
    /\ (xform.op = "mapRect" /\ (xform.arg[3] < 0 \/ xform.arg[4] < 0)) =>
          xform.ret = <<0, 0, -1, -1>> /\ xform.m = xform.old

\* mapRect has returned Rect::Invalid for a rect of negative width that is not
\* Rect::Invalid itself, on a singular transform that is not the one the run
\* started with
C15_Witness ==
    /\ xform.op = "mapRect"
    /\ xform.arg = <<1, 1, -2, 3>>
    /\ xform.ret = <<0, 0, -1, -1>>
    /\ Det(xform.m) = 0
    /\ xform.n = 2
    /\ xform.m # scaled(0, 1)

(***************************************************************************)
(* PathIterator.  A path buffer is an array of element slots: each command *)
(* is a header slot (the command and the number of slots it takes, itself  *)
(* included) followed by its points.                                       *)
(***************************************************************************)
MaxCmds == 3       \* commands of the path iterated

PathCommands == {"MoveTo", "LineTo", "CubicTo", "Close"}

\* the points that follow a command's header
NumPoints(command) == IF command = "CubicTo" THEN 3 ELSE 1

Header(command, length) == [kind |-> "header", command |-> command, length |-> length]

PointSlot(x, y) == [kind |-> "point", x |-> x, y |-> y]

\* plutovg_path_add_command: the slots of the n-th command appended; its
\* k-th point is (n, k)
CommandSlots(command, n) ==
    <<Header(command, NumPoints(command) + 1)>> \o
        [k \in 1 .. NumPoints(command) |-> PointSlot(n, k)]

RECURSIVE ElementsFrom(_, _)
\* the slots of the commands cmds, the first of them being the n-th appended
ElementsFrom(cmds, n) ==
    IF cmds = <<>> THEN <<>>
    ELSE CommandSlots(Head(cmds), n) \o ElementsFrom(Tail(cmds), n + 1)

\* plutovg_path_get_elements: the slots of a path built by appending cmds
plutovg_path_get_elements(cmds) == ElementsFrom(cmds, 1)

\* the sequences of at most MaxCmds commands
CommandSeqs == UNION {[1 .. n -> PathCommands] : n \in 0 .. MaxCmds}

\* m_elements[i]; a slot past the end of the array is none of the path's
SlotAt(elements, i) == IF i < Len(elements) THEN elements[i + 1] ELSE [kind |-> "beyond"]

\* .header.command and .header.length of a slot; read from a slot that holds
\* a point they are no command, and a length taken as 1
HeaderCommand(slot) == IF slot.kind = "header" THEN slot.command ELSE "garbage"

HeaderLength(slot) == IF slot.kind = "header" THEN slot.length ELSE 1

\* PathIterator::PathIterator, lines 338-342
PathIteratorCtor(cmds) ==
    LET elements == plutovg_path_get_elements(cmds) IN
        [m_elements |-> elements, m_size |-> Len(elements), m_index |-> 0,
         segments |-> <<>>, reads |-> {}, pc |-> "currentSegment"]

\* PathIterator::currentSegment, lines 344-365: the segment is added to those
\* handed out, the slots read to iter.reads
currentSegment ==
    /\ iter.pc = "currentSegment"
    /\ iter.m_index < iter.m_size
    /\ LET command == HeaderCommand(SlotAt(iter.m_elements, iter.m_index))
           n == IF command = "CubicTo" THEN 3
                ELSE IF command \in {"MoveTo", "LineTo", "Close"} THEN 1 ELSE 0
           points == [k \in 1 .. n |-> SlotAt(iter.m_elements, iter.m_index + k)]
       IN  iter' = [iter EXCEPT !.segments = Append(@, [command |-> command, points |-> points]),
                                !.reads = @ \cup (iter.m_index .. iter.m_index + n),
                                !.pc = "next"]
    /\ UNCHANGED <<pathVars, canvasVars, created, mask, xform, conc>>

\* next() that steps to the following slot
next_slot ==
    /\ iter.pc = "next"
    /\ iter' = [iter EXCEPT !.m_index = @ + 1,
                            !.reads = @ \cup {iter.m_index},
                            !.pc = "currentSegment"]
    /\ UNCHANGED <<pathVars, canvasVars, created, mask, xform, conc>>

\* PathIterator::next, lines 367-370
next ==
    /\ iter.pc = "next"
    /\ iter' = [iter EXCEPT !.m_index = @ + HeaderLength(SlotAt(iter.m_elements, iter.m_index)),
                            !.reads = @ \cup {iter.m_index},
                            !.pc = "currentSegment"]
    /\ UNCHANGED <<pathVars, canvasVars, created, mask, xform, conc>>

InitIter ==
    /\ iter \in {PathIteratorCtor(cmds) : cmds \in CommandSeqs}
    /\ mask = <<>>
    /\ xform = <<>>
    /\ conc = <<>>

InitI == InitIter /\ InitPath /\ IdleCanvas /\ IdleCreate

NextIter == currentSegment \/ next

SpecIter == InitI /\ [][NextIter]_vars

(***************************************************************************)
(* Claims about PathIterator, checked under SpecIter.                      *)
(***************************************************************************)
\* the commands of the path iterated, in append order: the commands of its
\* header slots
RECURSIVE HeadersOf(_)
HeadersOf(elements) ==
    IF elements = <<>> THEN <<>>
    ELSE (IF Head(elements).kind = "header" THEN <<Head(elements).command>> ELSE <<>>)
             \o HeadersOf(Tail(elements))

IterDone == iter.pc = "currentSegment" /\ iter.m_index >= iter.m_size

\* C17: the segments handed out so far are the first commands of the path, in
\* append order and each once, with one point for MoveTo, LineTo and Close
\* and three for CubicTo, every point being a point slot of that command; no
\* slot at or beyond the element count has been read; and when the index
\* has reached the element count it is equal to it and every command has
\* been handed out.
C17_IteratorTraversal ==
    LET cmds == HeadersOf(iter.m_elements) IN
        /\ Len(iter.segments) <= Len(cmds)
        /\ \A i \in 1 .. Len(iter.segments) :
              LET seg == iter.segments[i] IN
                  /\ seg.command = cmds[i]
                  /\ Len(seg.points) = (IF seg.command = "CubicTo" THEN 3 ELSE 1)
                  /\ \A k \in 1 .. Len(seg.points) : seg.points[k] = [kind |-> "point", x |-> i, y |-> k]
        /\ \A r \in iter.reads : 0 <= r /\ r < iter.m_size
        /\ IterDone => iter.m_index = iter.m_size /\ Len(iter.segments) = Len(cmds)

\* the traversal of a path of MaxCmds commands that has a cubic followed by a
\* close has ended, and its last slot has been read
C17_Witness ==
    /\ IterDone
    /\ Len(iter.segments) = MaxCmds
    /\ \E i \in 1 .. MaxCmds - 1 :
          iter.segments[i].command = "CubicTo" /\ iter.segments[i + 1].command = "Close"
    /\ iter.m_size - 1 \in iter.reads

(***************************************************************************)
(* Two threads on one heap.  Each thread constructs, copies, appends to    *)
(* and destroys its own Path values; one Path of each thread points to a   *)
(* buffer the two share.  The reference count is a plain int: ++ and --    *)
(* are a load and a store, and other threads run between the two, as they  *)
(* do between the load of isUnique() and what ensure() does next.          *)
(***************************************************************************)
MaxThreadPaths == 2    \* Path values of one thread
MaxConcBufs == 4       \* path buffers allocated at once
MaxThreadOps == 2      \* Path operations one thread starts
MaxConcElems == 1      \* segments of one buffer

Threads == {1, 2}

ConcPaths == 1 .. 2 * MaxThreadPaths

\* the thread a Path value belongs to
ThreadOf(p) == IF p <= MaxThreadPaths THEN 1 ELSE 2

PathsOf(t) == {p \in ConcPaths : ThreadOf(p) = t}

ConcBufs == 1 .. MaxConcBufs

ConcFree(h) == {b \in ConcBufs : h[b].ref = 0}

\* malloc, which is thread-safe: the free buffer with the smallest handle
ConcNew(h) == CHOOSE b \in ConcFree(h) : \A c \in ConcFree(h) : b <= c

NoReg == [op |-> "none", p |-> 0, b |-> 0, cnt |-> 0]

\* the thread is between operations and may start one on a Path of its own
\* whose buffer has not been freed under it
CanStart(t) ==
    /\ conc.pc[t] = "idle"
    /\ conc.ops[t] < MaxThreadOps

Valid(p) == conc.m[p] # NoBuf /\ conc.h[conc.m[p]].ref > 0

\* what every step of thread t leaves alone
ConcFrame == UNCHANGED <<pathVars, canvasVars, created, mask, xform, iter>>

\* Path::Path(), lines 211-214, up to the load of ++ref_count in
\* plutovg_path_reference: defaultPathData creates the thread's buffer on the
\* first call (lines 205-207)
ConcCtorLoad(t, p) ==
    /\ CanStart(t)
    /\ p \in PathsOf(t) /\ conc.m[p] = NoBuf
    /\ IF conc.tls[t] = NoBuf THEN ConcFree(conc.h) # {} ELSE conc.h[conc.tls[t]].ref > 0
    /\ LET b == IF conc.tls[t] = NoBuf THEN ConcNew(conc.h) ELSE conc.tls[t]
           h1 == IF conc.tls[t] = NoBuf
                 THEN [conc.h EXCEPT ![b] = [ref |-> 1, len |-> 0]] ELSE conc.h
       IN  conc' = [conc EXCEPT !.h = h1, !.tls[t] = b, !.pc[t] = "ref_store",
                                !.reg[t] = [op |-> "ctor", p |-> p, b |-> b, cnt |-> h1[b].ref],
                                !.ops[t] = @ + 1]
    /\ ConcFrame

\* Path::Path(const Path&), lines 216-219, up to the load of ++ref_count:
\* p is constructed as a copy of q
ConcCopyLoad(t, p, q) ==
    /\ CanStart(t)
    /\ p \in PathsOf(t) /\ q \in PathsOf(t)
    /\ conc.m[p] = NoBuf /\ Valid(q)
    /\ conc' = [conc EXCEPT !.pc[t] = "ref_store",
                            !.reg[t] = [op |-> "copy", p |-> p, b |-> conc.m[q],
                                        cnt |-> conc.h[conc.m[q]].ref],
                            !.ops[t] = @ + 1]
    /\ ConcFrame

\* the store of ++ref_count, after which the constructor sets m_data
ConcRefStore(t) ==
    /\ conc.pc[t] = "ref_store"
    /\ LET r == conc.reg[t] IN
        conc' = [conc EXCEPT !.h[r.b].ref = r.cnt + 1,
                             !.m[r.p] = r.b,
                             !.raced = @ \/ conc.h[r.b].ref # r.cnt,
                             !.pc[t] = "idle", !.reg[t] = NoReg]
    /\ ConcFrame

\* Path::~Path, lines 226-229, up to the load of --ref_count in
\* plutovg_path_destroy; the Path is no longer a live value
ConcDtorLoad(t, p) ==
    /\ CanStart(t)
    /\ p \in PathsOf(t) /\ Valid(p)
    /\ conc' = [conc EXCEPT !.m[p] = NoBuf, !.pc[t] = "unref_store",
                            !.reg[t] = [op |-> "dtor", p |-> p, b |-> conc.m[p],
                                        cnt |-> conc.h[conc.m[p]].ref],
                            !.ops[t] = @ + 1]
    /\ ConcFrame

\* the store of --ref_count; the buffer is freed if the count stored is zero
ConcUnrefStore(t) ==
    /\ conc.pc[t] = "unref_store"
    /\ LET r == conc.reg[t] IN
        conc' = [conc EXCEPT !.h[r.b] = IF r.cnt - 1 = 0 THEN [ref |-> 0, len |-> 0]
                                        ELSE [@ EXCEPT !.ref = r.cnt - 1],
                             !.raced = @ \/ conc.h[r.b].ref # r.cnt,
                             !.pc[t] = "idle", !.reg[t] = NoReg]
    /\ ConcFrame

\* ensure() that takes every buffer for unique
ConcEnsureLoad_unchecked(t, p) ==
    /\ CanStart(t)
    /\ p \in PathsOf(t) /\ Valid(p)
    /\ conc' = [conc EXCEPT !.pc[t] = "ensured",
                            !.reg[t] = [op |-> "append", p |-> p, b |-> conc.m[p], cnt |-> 1],
                            !.ops[t] = @ + 1]
    /\ ConcFrame

\* Path::moveTo ... Path::addRect, up to the load of the count by isUnique()
\* in ensure(), line 333
ConcEnsureLoad(t, p) ==
    /\ CanStart(t)
    /\ p \in PathsOf(t) /\ Valid(p)
    /\ conc' = [conc EXCEPT !.pc[t] = "ensured",
                            !.reg[t] = [op |-> "append", p |-> p, b |-> conc.m[p],
                                        cnt |-> conc.h[conc.m[p]].ref],
                            !.ops[t] = @ + 1]
    /\ ConcFrame

\* the rest of ensure(), lines 333-335, and the backend's append: on the
\* buffer itself if the count loaded was 1, else on a clone that becomes
\* m_data (the count of the old buffer is left as it is)
ConcAppend(t) ==
    /\ conc.pc[t] = "ensured"
    /\ LET r == conc.reg[t] IN
        IF r.cnt = 1
        THEN /\ conc.h[r.b].len < MaxConcElems
             /\ conc' = [conc EXCEPT
                    !.h[r.b].len = @ + 1,
                    !.inPlace = @ + 1,
                    !.sharedInPlace = @ \/ \E q \in ConcPaths : q # r.p /\ conc.m[q] = r.b,
                    !.pc[t] = "idle", !.reg[t] = NoReg]
        ELSE /\ ConcFree(conc.h) # {}
             /\ conc.h[r.b].len < MaxConcElems
             /\ conc' = [conc EXCEPT
                    !.h[ConcNew(conc.h)] = [ref |-> 1, len |-> conc.h[r.b].len + 1],
                    !.m[r.p] = ConcNew(conc.h),
                    !.pc[t] = "idle", !.reg[t] = NoReg]
    /\ ConcFrame

\* Path 1 of thread 1 and the first Path of thread 2 share buffer 1
InitConc ==
    /\ conc = [m |-> [p \in ConcPaths |-> IF p \in {1, MaxThreadPaths + 1} THEN 1 ELSE NoBuf],
               h |-> [b \in ConcBufs |-> IF b = 1 THEN [ref |-> 2, len |-> 0]
                                         ELSE [ref |-> 0, len |-> 0]],
               tls |-> [t \in Threads |-> NoBuf],
               pc |-> [t \in Threads |-> "idle"],
               reg |-> [t \in Threads |-> NoReg],
               ops |-> [t \in Threads |-> 0],
               raced |-> FALSE, inPlace |-> 0, sharedInPlace |-> FALSE]
    /\ mask = <<>>
    /\ xform = <<>>
    /\ iter = <<>>

InitD == InitConc /\ InitPath /\ IdleCanvas /\ IdleCreate

NextConc ==
    \/ \E t \in Threads, p \in ConcPaths : ConcCtorLoad(t, p)
    \/ \E t \in Threads, p, q \in ConcPaths : ConcCopyLoad(t, p, q)
    \/ \E t \in Threads : ConcRefStore(t)
    \/ \E t \in Threads, p \in ConcPaths : ConcDtorLoad(t, p)
    \/ \E t \in Threads : ConcUnrefStore(t)
    \/ \E t \in Threads, p \in ConcPaths : ConcEnsureLoad(t, p)
    \/ \E t \in Threads : ConcAppend(t)

SpecConc == InitD /\ [][NextConc]_vars

(***************************************************************************)
(* Claims about Paths of two threads, checked under SpecConc.              *)
(***************************************************************************)
\* the buffers the two threads' caches hold are different buffers
CachesDiffer == conc.tls[1] = NoBuf \/ conc.tls[1] # conc.tls[2]

====
